---- MODULE Spec2Model ----
(***************************************************************************)
(* Model of src/expenses-tracker.py: a menu-driven expense tracker over    *)
(* balance.txt and the day files expenses_<date>.txt.                       *)
(*                                                                         *)
(* Numbers.  A Python float is a record [k, v]: k = "fin" with v the value  *)
(* in thousandths of a currency unit, or k = "nan" / "inf" / "ninf".  The   *)
(* arithmetic is exact on the finite values (binary rounding error, far     *)
(* below the 1e-9 tolerance of the code, is not modelled) and follows IEEE  *)
(* on the special values.                                                  *)
(* Text.  A numeric text (file content, typed amount) is a record           *)
(* [k, v, fd]: k = "dec" is a decimal of value v thousandths written with   *)
(* fd fraction digits, k = "nan" / "inf" / "ninf" are the texts float()     *)
(* accepts for the special values, k = "junk" is a text float() rejects.    *)
(* Typed lines of free text are sequences of one-character strings.         *)
(* Input.  Every input() call returns a line (end of input and Ctrl-C are   *)
(* not modelled); the process runs alone on its directory.                  *)
(***************************************************************************)
EXTENDS Integers, Sequences, FiniteSets, TLC

VARIABLES
    pc,          \* where the process is: which prompt it waits at
    balanceFile, \* balance.txt: [exists, text, nl]
    dayFiles,    \* date -> [exists, lines]: expenses_<date>.txt
    bal,         \* local bal of show_balance_report / add_new_expense
    available,   \* local available
    date_str,    \* local date_str of add_new_expense
    item,        \* local item
    amt,         \* local amt
    msg,         \* the last message printed
    diag,        \* whether the last read_balance printed its diagnostic
    found,       \* len(matches) of the last search
    exitStatus,  \* exit status of the process, -1 while it runs
    pre          \* history: the store when the current menu operation began

vars == <<pc, balanceFile, dayFiles, bal, available, date_str, item, amt,
          msg, diag, found, exitStatus, pre>>

\* ---------------------------------------------------------------- bounds
\* add-money is offered while balance.txt holds less than MaxBalance units
MaxBalance == 3
\* add_new_expense is entered while the day files hold fewer than MaxLines lines
MaxLines == 3

\* ---------------------------------------------------------------- floats
Fin(v) == [k |-> "fin", v |-> v]
NaN == [k |-> "nan", v |-> 0]
Inf == [k |-> "inf", v |-> 0]
NInf == [k |-> "ninf", v |-> 0]
NoVal == [k |-> "none", v |-> 0]

FNeg(a) ==
    CASE a.k = "fin" -> Fin(0 - a.v)
      [] a.k = "inf" -> NInf
      [] a.k = "ninf" -> Inf
      [] OTHER -> NaN

FAdd(a, b) ==
    CASE a.k = "nan" \/ b.k = "nan" -> NaN
      [] a.k = "fin" /\ b.k = "fin" -> Fin(a.v + b.v)
      [] a.k = "fin" -> b
      [] b.k = "fin" -> a
      [] a.k = b.k -> a
      [] OTHER -> NaN

FSub(a, b) == FAdd(a, FNeg(b))

\* a <= b; every comparison with nan is False
FLe(a, b) ==
    CASE a.k = "nan" \/ b.k = "nan" -> FALSE
      [] a.k = "fin" /\ b.k = "fin" -> a.v <= b.v
      [] a.k = "ninf" -> TRUE
      [] b.k = "inf" -> TRUE
      [] OTHER -> FALSE

\* a > b
FGt(a, b) ==
    CASE a.k = "nan" \/ b.k = "nan" -> FALSE
      [] a.k = "fin" /\ b.k = "fin" -> a.v > b.v
      [] a.k = "inf" -> b.k # "inf"
      [] b.k = "ninf" -> a.k # "ninf"
      [] OTHER -> FALSE

\* a > b + 1e-9.  Finite values are whole thousandths, so a exceeds b by more
\* than 1e-9 exactly when it exceeds b.
FGtTol(a, b) == FGt(a, b)

\* abs(a - b) < 1e-9: on whole thousandths, equality
FNear(a, b) == a.k = "fin" /\ b.k = "fin" /\ a.v = b.v

\* ------------------------------------------------------------------ text
Dec(v, fd) == [k |-> "dec", v |-> v, fd |-> fd]
Junk == [k |-> "junk", v |-> 0, fd |-> 0]
NanText == [k |-> "nan", v |-> 0, fd |-> 0]
InfText == [k |-> "inf", v |-> 0, fd |-> 0]
NInfText == [k |-> "ninf", v |-> 0, fd |-> 0]

\* float(s) raises ValueError exactly on junk
CanFloat(t) == t.k # "junk"

Float(t) ==
    CASE t.k = "dec" -> Fin(t.v)
      [] t.k = "inf" -> Inf
      [] t.k = "ninf" -> NInf
      [] OTHER -> NaN

\* round to the nearest hundredth (no modelled value lies on a tie)
Round2(v) == ((v + 5) \div 10) * 10

\* f"{x:.2f}"
format_currency(x) ==
    CASE x.k = "fin" -> Dec(Round2(x.v), 2)
      [] x.k = "inf" -> InfText
      [] x.k = "ninf" -> NInfText
      [] OTHER -> NanText

\* str.strip() and str.lower() on a line of characters
RECURSIVE LStrip(_)
LStrip(s) == IF s # <<>> /\ Head(s) = " " THEN LStrip(Tail(s)) ELSE s

RECURSIVE RStrip(_)
RStrip(s) ==
    IF s # <<>> /\ s[Len(s)] = " " THEN RStrip(SubSeq(s, 1, Len(s) - 1)) ELSE s

Strip(s) == RStrip(LStrip(s))

LowerChar(c) ==
    CASE c = "Y" -> "y"
      [] c = "N" -> "n"
      [] c = "T" -> "t"
      [] c = "A" -> "a"
      [] OTHER -> c

Lower(s) == [i \in 1..Len(s) |-> LowerChar(s[i])]

\* q in s
IsSubstr(q, s) ==
    \E i \in 0..(Len(s) - Len(q)) : SubSeq(s, i + 1, i + Len(q)) = q

\* the number of "|" in a line of characters
RECURSIVE PipeCount(_)
PipeCount(s) ==
    IF s = <<>> THEN 0
    ELSE (IF Head(s) = "|" THEN 1 ELSE 0) + PipeCount(Tail(s))

\* ----------------------------------------------------------------- store
Dates == {"2024-01-01", "2024-01-02"}
NoDate == "none"

AbsentFile == [exists |-> FALSE, text |-> Junk, nl |-> FALSE]
\* the "0.0\n" read_balance writes
ZeroFile == [exists |-> TRUE, text |-> Dec(0, 1), nl |-> TRUE]

NoDayFile == [exists |-> FALSE, lines |-> <<>>]

\* a day-file line "<id>|<timestamp>|<item>|<amount>\n"; the timestamp never
\* holds a "|" and no claim reads it, so it is left out of the record
Line(id, it, a) == [id |-> id, item |-> it, amt |-> a]

\* read_balance that answers 0.0 for unparseable content without resetting
\* the file or printing the diagnostic
read_balance_no_reset(file) ==
    IF ~file.exists
    THEN [val |-> Fin(0), file |-> ZeroFile, diag |-> FALSE]
    ELSE IF CanFloat(file.text)
         THEN [val |-> Float(file.text), file |-> file, diag |-> FALSE]
         ELSE [val |-> Fin(0), file |-> file, diag |-> FALSE]

\* read_balance: the value returned, the file afterwards, the diagnostic
read_balance(file) ==
    IF ~file.exists
    THEN [val |-> Fin(0), file |-> ZeroFile, diag |-> FALSE]
    ELSE IF CanFloat(file.text)
         THEN [val |-> Float(file.text), file |-> file, diag |-> FALSE]
         ELSE [val |-> Fin(0), file |-> ZeroFile, diag |-> TRUE]

\* write_balance
write_balance(new_balance) ==
    [exists |-> TRUE, text |-> format_currency(new_balance), nl |-> TRUE]

\* parse_expense_line: split on "|" gives 4 + PipeCount(item) parts
ParseOk(line) == PipeCount(line.item) = 0 /\ CanFloat(line.amt)

parse_expense_line(line) ==
    [id |-> line.id, item |-> line.item, amount |-> Float(line.amt)]

RECURSIVE SumLines(_)
SumLines(lines) ==
    IF lines = <<>> THEN Fin(0)
    ELSE LET rest == SumLines(SubSeq(lines, 1, Len(lines) - 1))
             last == lines[Len(lines)]
         IN  IF ParseOk(last) THEN FAdd(rest, parse_expense_line(last).amount)
             ELSE rest

\* list_expense_files: the existing day files in sorted order
list_expense_files(files) ==
    SelectSeq(<<"2024-01-01", "2024-01-02">>, LAMBDA d : files[d].exists)

RECURSIVE SumFiles(_, _)
SumFiles(files, names) ==
    IF names = <<>> THEN Fin(0)
    ELSE FAdd(SumFiles(files, SubSeq(names, 1, Len(names) - 1)),
              SumLines(files[names[Len(names)]].lines))

total_expenses(files) == SumFiles(files, list_expense_files(files))

LineCount(files) == Len(files["2024-01-01"].lines) + Len(files["2024-01-02"].lines)

Store == [balanceFile |-> balanceFile, dayFiles |-> dayFiles]

\* ---------------------------------------------------------------- inputs
\* lines typed at the menu prompts and the y/n prompts
MenuInputs == {<<"1">>, <<"2">>, <<"3">>, <<"4">>, <<" ", "3">>, <<"5">>, <<>>}
AnswerInputs == {<<"y">>, <<"Y", " ">>, <<"y", "e", "s">>, <<"n">>, <<>>}
\* lines typed at the item prompt and the item search prompt
ItemInputs == {<<>>, <<" ">>, <<"T">>, <<" ", "T">>, <<"a", "|", "b">>}
\* texts typed at the amount prompts: "abc", "0", "-1", "0.996", "1", "nan",
\* "inf"
AmountInputs ==
    {Junk, Dec(0, 0), Dec(-1000, 0), Dec(996, 3), Dec(1000, 0), NanText,
     InfText}
\* lines typed at the date prompt
DateInputs == {"", " ", "2024-01-01", " 2024-01-02 ", "2024-13-01", "01/01/2024"}
\* amount search queries after the code's test for "-" and its split on the
\* first one: "", "1", "abc", "0-1", "1-abc", "-1" (a range with an empty lower end)
AmountQueries ==
    {[kind |-> "empty", lo |-> Junk, hi |-> Junk],
     [kind |-> "single", lo |-> Dec(1000, 0), hi |-> Junk],
     [kind |-> "single", lo |-> Junk, hi |-> Junk],
     [kind |-> "range", lo |-> Dec(0, 0), hi |-> Dec(1000, 0)],
     [kind |-> "range", lo |-> Dec(1000, 0), hi |-> Junk],
     [kind |-> "range", lo |-> Junk, hi |-> Dec(1000, 0)]}

\* str.strip() on the typed date lines
StripDate(s) ==
    CASE s = " " -> ""
      [] s = " 2024-01-02 " -> "2024-01-02"
      [] OTHER -> s

\* datetime.date.fromisoformat succeeds; isoformat() gives the same text back
IsIsoDate(s) == s \in Dates

\* ------------------------------------------------------------------ init
Coffee == Line(1, <<"T">>, Dec(1000, 2))
Garbled == Line(7, <<"T">>, Junk)

EmptyStore ==
    [balanceFile |-> AbsentFile, dayFiles |-> [d \in Dates |-> NoDayFile]]

\* stores the program may be started on: a fresh directory; a hand-edited
\* balance.txt holding "abc" beside a day file with a malformed last line; a
\* balance.txt holding "2.00" without a newline beside a one-line day file
InitStores ==
    {EmptyStore,
     [balanceFile |-> [exists |-> TRUE, text |-> Junk, nl |-> TRUE],
      dayFiles |-> [d \in Dates |->
          IF d = "2024-01-01"
          THEN [exists |-> TRUE, lines |-> <<Coffee, Garbled>>]
          ELSE NoDayFile]],
     [balanceFile |-> [exists |-> TRUE, text |-> Dec(2000, 2), nl |-> FALSE],
      dayFiles |-> [d \in Dates |->
          IF d = "2024-01-02"
          THEN [exists |-> TRUE, lines |-> <<Coffee>>]
          ELSE NoDayFile]]}

\* pc = "guard": the file is run as a script and line 283 is about to be
\* evaluated.  pc = "menu": main_menu() was called and waits at its prompt.
InitOn(stores) ==
    /\ pc \in {"guard", "menu"}
    /\ \E s \in stores :
          /\ balanceFile = s.balanceFile
          /\ dayFiles = s.dayFiles
          /\ pre = s
    /\ bal = NoVal
    /\ available = NoVal
    /\ date_str = NoDate
    /\ item = <<>>
    /\ amt = NoVal
    /\ msg = ""
    /\ diag = FALSE
    /\ found = 0
    /\ exitStatus = -1

Init == InitOn(InitStores)
InitEmpty == InitOn({EmptyStore})

\* --------------------------------------------------------------- actions
\* the messages add_new_expense ends with (lines 173, 149, 154)
Saved == "Expense saved."
Cancelled == "Expense not saved."
Rejected == "Insufficient balance! Cannot save expense."

\* the function returns to the main menu loop: its locals are gone
ReturnToMenu(m, bf, df) ==
    /\ pc' = "menu"
    /\ balanceFile' = bf
    /\ dayFiles' = df
    /\ pre' = [balanceFile |-> bf, dayFiles |-> df]
    /\ bal' = NoVal
    /\ available' = NoVal
    /\ date_str' = NoDate
    /\ item' = <<>>
    /\ amt' = NoVal
    /\ msg' = m
    /\ diag' = FALSE
    /\ UNCHANGED <<found, exitStatus>>

\* a prompt is repeated after message m
Reprompt(m) ==
    /\ msg' = m
    /\ UNCHANGED <<pc, balanceFile, dayFiles, bal, available, date_str, item,
                   amt, diag, found, exitStatus, pre>>

\* line 283: the name _name_ is not defined, NameError ends the process
EntryGuard ==
    /\ pc = "guard"
    /\ pc' = "crashed"
    /\ exitStatus' = 1
    /\ msg' = "NameError: name '_name_' is not defined"
    /\ UNCHANGED <<balanceFile, dayFiles, bal, available, date_str, item, amt,
                   diag, found, pre>>

\* lines 78-86 and 105-112: read_balance, total_expenses, available, then
\* the first prompt of the function
EnterWithBalance(next, m) ==
    LET r == read_balance(balanceFile) IN
    /\ pc' = next
    /\ balanceFile' = r.file
    /\ bal' = r.val
    /\ diag' = r.diag
    /\ available' = FSub(r.val, total_expenses(dayFiles))
    /\ msg' = m
    /\ pre' = Store
    /\ UNCHANGED <<dayFiles, date_str, item, amt, found, exitStatus>>

MenuBalance ==
    /\ pc = "menu"
    /\ \E line \in MenuInputs : Strip(line) = <<"1">>
    /\ EnterWithBalance("report_ask", "--- BALANCE REPORT ---")

MenuView ==
    /\ pc = "menu"
    /\ \E line \in MenuInputs : Strip(line) = <<"2">>
    /\ pc' = "view"
    /\ msg' = "--- VIEW EXPENSES ---"
    /\ UNCHANGED <<balanceFile, dayFiles, bal, available, date_str, item, amt,
                   diag, found, exitStatus, pre>>

MenuExpense ==
    /\ pc = "menu"
    /\ LineCount(dayFiles) < MaxLines
    /\ \E line \in MenuInputs : Strip(line) = <<"3">>
    /\ EnterWithBalance("exp_date", "Available balance")

MenuExit ==
    /\ pc = "menu"
    /\ \E line \in MenuInputs : Strip(line) = <<"4">>
    /\ pc' = "exited"
    /\ exitStatus' = 0
    /\ msg' = "Exiting. Goodbye!"
    /\ UNCHANGED <<balanceFile, dayFiles, bal, available, date_str, item, amt,
                   diag, found, pre>>

MenuInvalid ==
    /\ pc = "menu"
    /\ \E line \in MenuInputs :
          Strip(line) \notin {<<"1">>, <<"2">>, <<"3">>, <<"4">>}
    /\ Reprompt("Invalid input. Choose 1-4.")

\* lines 86-87
ReportAsk ==
    /\ pc = "report_ask"
    /\ \E line \in AnswerInputs :
          LET ans == Lower(Strip(line)) IN
          IF ans = <<"y">>
          THEN /\ bal.k = "fin" => bal.v < MaxBalance * 1000
               /\ pc' = "report_amt"
               /\ msg' = "Enter amount to add"
               /\ UNCHANGED <<balanceFile, dayFiles, bal, available, date_str,
                              item, amt, diag, found, exitStatus, pre>>
          ELSE ReturnToMenu(msg, balanceFile, dayFiles)

\* lines 88-101
ReportAmount ==
    /\ pc = "report_amt"
    /\ \E amt_str \in AmountInputs :
          IF ~CanFloat(amt_str)
          THEN Reprompt("Please enter a valid number.")
          ELSE IF FLe(Float(amt_str), Fin(0))
               THEN Reprompt("Amount must be positive.")
               ELSE LET new_bal == FAdd(bal, Float(amt_str)) IN
                    ReturnToMenu("Balance updated.", write_balance(new_bal),
                                 dayFiles)

\* lines 111-122
ExpenseDate ==
    /\ pc = "exp_date"
    /\ \E typed \in DateInputs, today \in Dates :
          LET s == StripDate(typed) IN
          IF s = "" \/ IsIsoDate(s)
          THEN /\ date_str' = (IF s = "" THEN today ELSE s)
               /\ pc' = "exp_item"
               /\ msg' = "Enter item name"
               /\ UNCHANGED <<balanceFile, dayFiles, bal, available, item,
                              amt, diag, found, exitStatus, pre>>
          ELSE Reprompt("Invalid date format. Use YYYY-MM-DD.")

\* lines 125-128
ExpenseItem ==
    /\ pc = "exp_item"
    /\ \E line \in ItemInputs :
          IF Strip(line) = <<>>
          THEN Reprompt("Item name cannot be empty.")
          ELSE /\ item' = Strip(line)
               /\ pc' = "exp_amt"
               /\ msg' = "Enter amount paid"
               /\ UNCHANGED <<balanceFile, dayFiles, bal, available, date_str,
                              amt, diag, found, exitStatus, pre>>

\* lines 131-140
ExpenseAmount ==
    /\ pc = "exp_amt"
    /\ \E amt_str \in AmountInputs :
          IF ~CanFloat(amt_str)
          THEN Reprompt("Please enter a valid number.")
          ELSE IF FLe(Float(amt_str), Fin(0))
               THEN Reprompt("Amount must be positive.")
               ELSE /\ amt' = Float(amt_str)
                    /\ pc' = "exp_conf"
                    /\ msg' = "Please confirm the entry:"
                    /\ UNCHANGED <<balanceFile, dayFiles, bal, available,
                                   date_str, item, diag, found, exitStatus, pre>>

\* lines 159-166: the id of the line about to be appended to file f
NextId(f) ==
    IF f.exists /\ f.lines # <<>> /\ ParseOk(f.lines[Len(f.lines)])
    THEN parse_expense_line(f.lines[Len(f.lines)]).id + 1
    ELSE 1

\* lines 157-171: the day files after the append
AppendExpense(files, d, it, a) ==
    [files EXCEPT ![d] =
        [exists |-> TRUE,
         lines |-> Append(files[d].lines,
                          Line(NextId(files[d]), it, format_currency(a)))]]

\* ExpenseConfirm that also writes the remaining balance to balance.txt
ExpenseConfirmDeducting ==
    /\ pc = "exp_conf"
    /\ \E line \in AnswerInputs :
          LET conf == Lower(Strip(line)) IN
          IF conf # <<"y">>
          THEN ReturnToMenu(Cancelled, balanceFile, dayFiles)
          ELSE IF FGtTol(amt, available)
               THEN ReturnToMenu(Rejected, balanceFile, dayFiles)
               ELSE ReturnToMenu(Saved,
                                 write_balance(FSub(bal, amt)),
                                 AppendExpense(dayFiles, date_str, item, amt))

\* ExpenseConfirm that checks the amount against balance.txt alone, not
\* against the available balance
ExpenseConfirmAgainstBalance ==
    /\ pc = "exp_conf"
    /\ \E line \in AnswerInputs :
          LET conf == Lower(Strip(line)) IN
          IF conf # <<"y">>
          THEN ReturnToMenu(Cancelled, balanceFile, dayFiles)
          ELSE IF FGtTol(amt, bal)
               THEN ReturnToMenu(Rejected, balanceFile, dayFiles)
               ELSE ReturnToMenu(Saved, balanceFile,
                                 AppendExpense(dayFiles, date_str, item, amt))

\* lines 147-173
ExpenseConfirm ==
    /\ pc = "exp_conf"
    /\ \E line \in AnswerInputs :
          LET conf == Lower(Strip(line)) IN
          IF conf # <<"y">>
          THEN ReturnToMenu(Cancelled, balanceFile, dayFiles)
          ELSE IF FGtTol(amt, available)
               THEN ReturnToMenu(Rejected, balanceFile, dayFiles)
               ELSE ReturnToMenu(Saved, balanceFile,
                                 AppendExpense(dayFiles, date_str, item, amt))

\* ---------------------------------------------------------------- search
\* the places <<date, index>> of the lines of the day files that parse
ParsedAt(files) ==
    {x \in Dates \X (1..(MaxLines + 2)) :
        /\ files[x[1]].exists
        /\ x[2] <= Len(files[x[1]].lines)
        /\ ParseOk(files[x[1]].lines[x[2]])}

\* rec at place x
RecAt(files, x) == parse_expense_line(files[x[1]].lines[x[2]])

\* lines 191-196 and 238-243: the search prints its result and returns to
\* the view menu
SearchDone(n) ==
    /\ pc' = "view"
    /\ found' = n
    /\ msg' = (IF n = 0 THEN "No results found." ELSE "Found result(s)")
    /\ UNCHANGED <<balanceFile, dayFiles, bal, available, date_str, item, amt,
                   diag, exitStatus, pre>>

\* the search returns on an empty query
SearchEmpty(m) ==
    /\ pc' = "view"
    /\ msg' = m
    /\ UNCHANGED <<balanceFile, dayFiles, bal, available, date_str, item, amt,
                   diag, found, exitStatus, pre>>

ViewSearchItem ==
    /\ pc = "view"
    /\ \E line \in MenuInputs : Strip(line) = <<"1">>
    /\ pc' = "search_item"
    /\ msg' = "Enter item name or substring to search"
    /\ UNCHANGED <<balanceFile, dayFiles, bal, available, date_str, item, amt,
                   diag, found, exitStatus, pre>>

ViewSearchAmount ==
    /\ pc = "view"
    /\ \E line \in MenuInputs : Strip(line) = <<"2">>
    /\ pc' = "search_amt"
    /\ msg' = "Enter amount to search"
    /\ UNCHANGED <<balanceFile, dayFiles, bal, available, date_str, item, amt,
                   diag, found, exitStatus, pre>>

ViewBack ==
    /\ pc = "view"
    /\ \E line \in MenuInputs : Strip(line) = <<"3">>
    /\ pc' = "menu"
    /\ msg' = "--- MAIN MENU ---"
    /\ found' = 0
    /\ UNCHANGED <<balanceFile, dayFiles, bal, available, date_str, item, amt,
                   diag, exitStatus, pre>>

ViewInvalid ==
    /\ pc = "view"
    /\ \E line \in MenuInputs : Strip(line) \notin {<<"1">>, <<"2">>, <<"3">>}
    /\ Reprompt("Invalid option. Choose 1, 2 or 3.")

\* lines 178-196
search_expenses_by_item ==
    /\ pc = "search_item"
    /\ \E line \in ItemInputs :
          LET q == Lower(Strip(line))
              matches == {x \in ParsedAt(dayFiles) :
                            IsSubstr(q, Lower(RecAt(dayFiles, x).item))}
          IN  IF q = <<>>
              THEN SearchEmpty("Empty search.")
              ELSE SearchDone(Cardinality(matches))

\* lines 198-243
search_expenses_by_amount ==
    /\ pc = "search_amt"
    /\ \E q \in AmountQueries :
          LET InRange == {x \in ParsedAt(dayFiles) :
                            /\ FLe(Float(q.lo), RecAt(dayFiles, x).amount)
                            /\ FLe(RecAt(dayFiles, x).amount, Float(q.hi))}
              Exact == {x \in ParsedAt(dayFiles) :
                          FNear(RecAt(dayFiles, x).amount, Float(q.lo))}
          IN  CASE q.kind = "empty" -> SearchEmpty("Empty input.")
                [] q.kind = "range" ->
                      IF CanFloat(q.lo) /\ CanFloat(q.hi)
                      THEN SearchDone(Cardinality(InRange))
                      ELSE Reprompt("Invalid range. Use min-max, e.g., 5-20")
                [] OTHER ->
                      IF CanFloat(q.lo)
                      THEN SearchDone(Cardinality(Exact))
                      ELSE Reprompt("Enter a valid number or range.")

\* ------------------------------------------------------------------ spec
Next ==
    \/ EntryGuard
    \/ MenuBalance
    \/ MenuView
    \/ MenuExpense
    \/ MenuExit
    \/ MenuInvalid
    \/ ReportAsk
    \/ ReportAmount
    \/ ExpenseDate
    \/ ExpenseItem
    \/ ExpenseAmount
    \/ ExpenseConfirm
    \/ ViewSearchItem
    \/ ViewSearchAmount
    \/ ViewBack
    \/ ViewInvalid
    \/ search_expenses_by_item
    \/ search_expenses_by_amount

Spec == Init /\ [][Next]_vars

\* the program started in an empty directory
SpecEmpty == InitEmpty /\ [][Next]_vars

\* ---------------------------------------------------------------- claims
\* the Balance Record as the program reads it: 0.0 for a missing or
\* unparseable balance.txt
BalanceValue(file) ==
    IF file.exists /\ CanFloat(file.text) THEN Float(file.text) ELSE Fin(0)

\* availableBalance() recomputed from the files of store s
AvailableOf(s) == FSub(BalanceValue(s.balanceFile), total_expenses(s.dayFiles))

\* C1, as stated: every step other than the add-money step leaves the
\* content of balance.txt exactly as it was.
C1_ContentOnlyByAddMoney ==
    [][pc # "report_amt" => balanceFile' = balanceFile]_vars

\* C1, amended: a step other than the add-money step leaves the value of the
\* Balance Record as it was, and leaves balance.txt itself as it was unless
\* the step is the read_balance at the start of a balance report or of
\* add_new_expense finding the file missing or unparseable, which writes
\* "0.0\n".
C1_ValueOnlyByAddMoney ==
    [][pc # "report_amt" =>
          /\ BalanceValue(balanceFile') = BalanceValue(balanceFile)
          /\ \/ balanceFile' = balanceFile
             \/ /\ pc = "menu"
                /\ pc' \in {"report_ask", "exp_date"}
                /\ ~(balanceFile.exists /\ CanFloat(balanceFile.text))
                /\ balanceFile' = ZeroFile]_vars

\* C1 witness: an expense was committed beside a positive Balance Record.
C1_Witness ==
    /\ pc = "menu"
    /\ msg = Saved
    /\ balanceFile.text.k = "dec"
    /\ balanceFile.text.v > 0
    /\ LineCount(dayFiles) > 0

\* C2, as stated: a confirmed expense whose amount exceeds the available
\* balance is rejected and the whole operation mutates no file.
C2_RejectedNoFileMutated ==
    [][(/\ pc = "exp_conf"
        /\ pc' = "menu"
        /\ msg' # Cancelled
        /\ FGt(amt, AvailableOf(Store)))
          => /\ msg' = Rejected
             /\ dayFiles' = pre.dayFiles
             /\ balanceFile' = pre.balanceFile]_vars

\* C2, amended: a confirmed expense whose amount exceeds the available
\* balance is rejected; the operation creates or appends to no day file and
\* leaves the value of the Balance Record as it was, balance.txt being
\* written only by the operation's read_balance when the file was missing
\* or unparseable.
C2_RejectedNoLedgerChange ==
    [][(/\ pc = "exp_conf"
        /\ pc' = "menu"
        /\ msg' # Cancelled
        /\ FGt(amt, AvailableOf(Store)))
          => /\ msg' = Rejected
             /\ dayFiles' = pre.dayFiles
             /\ BalanceValue(balanceFile') = BalanceValue(pre.balanceFile)
             /\ \/ balanceFile' = pre.balanceFile
                \/ /\ ~(pre.balanceFile.exists /\ CanFloat(pre.balanceFile.text))
                   /\ balanceFile' = ZeroFile]_vars

\* C2 witness: an expense was rejected for insufficient balance.
C2_Witness == pc = "menu" /\ msg = Rejected

\* C3: a committed expense of amount a > 0 lowers the available balance
\* recomputed from the files by a (a taken as written, to two decimals).
C3_AvailableDropsByAmount ==
    [][(pc = "exp_conf" /\ msg' = Saved /\ FGt(amt, Fin(0)))
          => AvailableOf(Store') =
                FSub(AvailableOf(Store), Float(format_currency(amt)))]_vars

\* C4: the add-money step either applies an amount > 0, leaving the Balance
\* Record at the old one plus that amount rounded to two decimals, or
\* re-prompts with balance.txt unchanged.
C4_AddMoney ==
    [][pc = "report_amt" =>
          \/ pc' = "report_amt" /\ balanceFile' = balanceFile
          \/ /\ pc' = "menu"
             /\ \E a \in AmountInputs :
                   /\ CanFloat(a)
                   /\ FGt(Float(a), Fin(0))
                   /\ balanceFile'.text =
                         format_currency(FAdd(BalanceValue(pre.balanceFile),
                                              Float(a)))]_vars

\* the well-formed records of a day file, in file order
WellFormed(lines) == SelectSeq(lines, ParseOk)

LastWellFormedId(lines) ==
    IF WellFormed(lines) = <<>> THEN 0
    ELSE WellFormed(lines)[Len(WellFormed(lines))].id

\* balance.txt and every amount on the day files hold a plain decimal
PlainAmounts(s) ==
    /\ s.balanceFile.text.k = "dec"
    /\ \A d \in Dates : \A i \in 1..Len(s.dayFiles[d].lines) :
          s.dayFiles[d].lines[i].amt.k = "dec"

\* C5: an appended line gets id 1 + the id of the last well-formed record of
\* its day file, or 1 when there is none (stated for a store whose amounts
\* are all plain decimals).
C5_NextIdAfterLastWellFormed ==
    [][(pc = "exp_conf" /\ msg' = Saved /\ PlainAmounts(Store'))
          => LET new == dayFiles'[date_str].lines
             IN  new[Len(new)].id
                    = 1 + LastWellFormedId(dayFiles[date_str].lines)]_vars

C7_StateMachine ==
    [][/\ pc = "exp_date" =>
             /\ pc' \in {"exp_date", "exp_item"}
             /\ pc' = "exp_item" => date_str' \in Dates
       /\ pc = "exp_item" =>
             /\ pc' \in {"exp_item", "exp_amt"}
             /\ pc' = "exp_amt" => item' # <<>> /\ item' = Strip(item')
       /\ pc = "exp_amt" =>
             /\ pc' \in {"exp_amt", "exp_conf"}
             /\ pc' = "exp_conf" => FGt(amt', Fin(0))
       /\ pc = "exp_conf" =>
             /\ pc' = "menu"
             /\ msg' \in {Saved, Cancelled, Rejected}
       /\ dayFiles' # dayFiles => pc = "exp_conf" /\ msg' = Saved]_vars

\* The transitions of add_new_expense alone: the statement above without its
\* condition on the amount.
ExpenseTransitions ==
    [][/\ pc = "exp_date" =>
             /\ pc' \in {"exp_date", "exp_item"}
             /\ pc' = "exp_item" => date_str' \in Dates
       /\ pc = "exp_item" =>
             /\ pc' \in {"exp_item", "exp_amt"}
             /\ pc' = "exp_amt" => item' # <<>> /\ item' = Strip(item')
       /\ pc = "exp_amt" => pc' \in {"exp_amt", "exp_conf"}
       /\ pc = "exp_conf" =>
             /\ pc' = "menu"
             /\ msg' \in {Saved, Cancelled, Rejected}
       /\ dayFiles' # dayFiles => pc = "exp_conf" /\ msg' = Saved]_vars

\* C8: whenever the content of balance.txt changes, the file then holds a
\* non-negative decimal with exactly two fraction digits and a newline.
C8_TwoFractionDigits ==
    [][balanceFile' # balanceFile =>
          /\ balanceFile'.exists
          /\ balanceFile'.text.k = "dec"
          /\ balanceFile'.text.v >= 0
          /\ balanceFile'.text.fd = 2
          /\ balanceFile'.nl]_vars

\* C9: the process ends only through the Exit choice of the main menu, with
\* status 0.
C9_ExitOnlyByChoice ==
    (pc \notin {"guard", "menu", "view", "search_item", "search_amt",
                "report_ask", "report_amt", "exp_date", "exp_item", "exp_amt",
                "exp_conf"} \/ exitStatus # -1)
        => (pc = "exited" /\ exitStatus = 0)

\* the sum of the amounts written on all lines of all day files, whether or
\* not the lines parse
RECURSIVE WrittenSum(_)
WrittenSum(lines) ==
    IF lines = <<>> THEN Fin(0)
    ELSE FAdd(WrittenSum(Tail(lines)), Float(Head(lines).amt))

\* C10: started on an empty store, the amounts the program has appended to
\* the day files never exceed the Balance Record.
C10_NoOverspend ==
    ~FGt(FAdd(WrittenSum(dayFiles["2024-01-01"].lines),
              WrittenSum(dayFiles["2024-01-02"].lines)),
         BalanceValue(balanceFile))
====
